---- MODULE Spec2Model ----
(***************************************************************************)
(* A model of the campus map application (src/script.js, class CampusMap): *)
(* the graph held in this.graph, its initial load with the built-in        *)
(* fallback, import of a snapshot file, waypoint position edits in admin   *)
(* mode, and the route query (findRoute -> dijkstra -> generateSteps ->    *)
(* displayRoute).                                                          *)
(*                                                                         *)
(* JSON values.  A snapshot is whatever JSON.parse / response.json()       *)
(* returns.  It is modelled as a record                                    *)
(*     [kind, nodes, edges, metadata]                                      *)
(* where kind is "object" or "null", and the fields nodes and edges are    *)
(* JSON values [kind, items]: kind "array" (items is the list), "object"   *)
(* (a truthy value that is no list) or "missing" (absent or falsy).        *)
(* A waypoint record is [id, name, lat, lng]; a record without lat/lng or  *)
(* without name models a JSON object lacking those fields.                 *)
(*                                                                         *)
(* Numbers.  The numbers of the program are IEEE 754 doubles: 53           *)
(* significant bits, sums rounded to the nearest double, ties to the even  *)
(* one.  The model counts weights and distances in units of 1/Scale metre, *)
(* so that weights that are not whole numbers exist and Math.round is not  *)
(* the identity, and keeps Precision significant bits instead of 53: a     *)
(* number is a natural number of units with at most Precision significant  *)
(* bits, and a sum is rounded to the nearest such number, ties to even.    *)
(* The weight Huge = 2^Precision units plays the part of 2^53: adding one  *)
(* unit to it is lost.  All sums of the built-in graph are exact, as they  *)
(* are in the program.  Coordinates are counted in units of 1e-4 degree.   *)
(***************************************************************************)
EXTENDS Integers, Sequences, FiniteSets, TLC

VARIABLES
    pc,           \* where init() is: "loading", "loaded", "ready", "initError"; "hung" once a handler loops forever
    graph,        \* this.graph
    markers,      \* this.markers: id -> [node: index in graph.nodes, dragging: enabled]
    searchIndex,  \* this.searchIndex
    selectOptions,\* the option values of #startSelect / #endSelect
    currentRoute, \* this.currentRoute: NoRoute or the displayed polyline's path
    routeOutput,  \* content of #routeOutput: "empty" (initial markup), "placeholder" or the route shown
    isAdminMode,  \* this.isAdminMode
    pending,      \* files whose file.text() is awaited by an importGraph call
    loadError,    \* obtaining ./data/distances.json failed (line 53 logs it)
    lastQuery,    \* the last route query: [start, end]
    lastResult,   \* what that query's dijkstra call did, and the toast findRoute showed
    lastImport,   \* how the last importGraph call ended, and the toast it showed
    imports,      \* number of importGraph calls made with a file
    downloaded,   \* campus-graph.json as exportGraph wrote it last: its text, and the graph it was written of
    run           \* a call of dijkstra taken step by step: its local variables

vars == <<pc, graph, markers, searchIndex, selectOptions, currentRoute, routeOutput,
          isAdminMode, pending, loadError, lastQuery, lastResult, lastImport, imports,
          downloaded, run>>

-----------------------------------------------------------------------------
(* Bounds of the model *)

\* weights are multiples of 1/Scale metre
Scale == 2
\* significant bits of a number
Precision == 16
\* at most this many files are imported in a behaviour
MaxImports == 2
\* at most this many connections in a graph of the route specification
MaxEdges == 3

-----------------------------------------------------------------------------
(* JSON values *)

Arr(s) == [kind |-> "array", items |-> s]
NotAList == [kind |-> "object", items |-> <<>>]
Missing == [kind |-> "missing", items |-> <<>>]

\* !v in JavaScript, for a field that is absent, a list or another object
Falsy(v) == v.kind = "missing"
IsArray(v) == v.kind = "array"

N(id, name, lat, lng) == [id |-> id, name |-> name, lat |-> lat, lng |-> lng]
\* a weight of d metres
E(a, b, d) == [a |-> a, b |-> b, dist |-> d * Scale]
\* a weight of h/Scale metres
EFrac(a, b, h) == [a |-> a, b |-> b, dist |-> h]

Snapshot(nodes, edges, metadata) ==
    [kind |-> "object", nodes |-> nodes, edges |-> edges, metadata |-> metadata]
NullValue == [kind |-> "null", nodes |-> Missing, edges |-> Missing, metadata |-> "none"]

Undefined == "undefined"
Infinity == -1

HasCoords(node) == {"lat", "lng"} \subseteq DOMAIN node
NameOf(node) == IF "name" \in DOMAIN node THEN node.name ELSE Undefined

-----------------------------------------------------------------------------
(* getDefaultGraphData *)

DefaultNodes == <<
    N("main_gate", "Main Gate", 131950, 777060),
    N("entrance_junction", "Entrance Junction", 131955, 777065),
    N("admin_block1", "Admin Block 1", 131960, 777070),
    N("hostel1", "Hostel 1", 131965, 777075),
    N("academic_block1", "Academic Block 1", 131970, 777070),
    N("academic_block2", "Academic Block 2", 131970, 777065),
    N("library", "Library", 131970, 777060),
    N("cafeteria", "Cafeteria", 131965, 777055),
    N("sports_complex", "Sports Complex", 131975, 777067),
    N("auditorium", "Auditorium", 131962, 777062),
    N("parking_area", "Parking Area", 131952, 777062),
    N("north_junction", "North Junction", 131972, 777067),
    N("east_junction", "East Junction", 131967, 777072),
    N("south_junction", "South Junction", 131962, 777067),
    N("west_junction", "West Junction", 131967, 777062),
    N("center_junction", "Center Junction", 131967, 777067) >>

DefaultEdges == <<
    E("main_gate", "entrance_junction", 120),
    E("entrance_junction", "parking_area", 80),
    E("entrance_junction", "south_junction", 150),
    E("south_junction", "west_junction", 180),
    E("west_junction", "north_junction", 180),
    E("north_junction", "east_junction", 180),
    E("east_junction", "south_junction", 180),
    E("south_junction", "center_junction", 90),
    E("west_junction", "center_junction", 90),
    E("north_junction", "center_junction", 90),
    E("east_junction", "center_junction", 90),
    E("south_junction", "admin_block1", 100),
    E("south_junction", "auditorium", 80),
    E("east_junction", "hostel1", 120),
    E("east_junction", "academic_block1", 100),
    E("north_junction", "academic_block1", 80),
    E("north_junction", "academic_block2", 100),
    E("north_junction", "sports_complex", 150),
    E("west_junction", "library", 100),
    E("west_junction", "cafeteria", 120),
    E("admin_block1", "auditorium", 90),
    E("hostel1", "academic_block1", 140),
    E("academic_block1", "academic_block2", 80),
    E("academic_block2", "library", 80),
    E("library", "cafeteria", 120),
    E("cafeteria", "parking_area", 160),
    E("center_junction", "auditorium", 70),
    E("sports_complex", "academic_block1", 120),
    E("sports_complex", "academic_block2", 100) >>

getDefaultGraphData == Snapshot(Arr(DefaultNodes), Arr(DefaultEdges), "updated-circular-layout")

-----------------------------------------------------------------------------
(* Sequence helpers *)

Range(s) == {s[i] : i \in DOMAIN s}

\* Array.prototype.find: the first index among hits, the indices of the
\* elements that satisfy the test (0: none)
FirstIndex(hits) ==
    IF hits = {} THEN 0 ELSE CHOOSE i \in hits : \A j \in hits : i <= j

\* the ids in the order a Set or the keys of an object first receive them
RECURSIVE InsertionOrder(_, _)
InsertionOrder(ids, acc) ==
    IF ids = <<>> THEN acc
    ELSE InsertionOrder(Tail(ids),
                        IF Head(ids) \in Range(acc) THEN acc ELSE Append(acc, Head(ids)))

NodeIds(g) == InsertionOrder([i \in DOMAIN g.nodes.items |-> g.nodes.items[i].id], <<>>)

-----------------------------------------------------------------------------
(* dijkstra(startId, endId) and generateSteps(path) *)

\* the spacing of the numbers around n: the least power of two q, from q on,
\* such that n is below 2^Precision * q
RECURSIVE Spacing(_, _)
Spacing(n, q) == IF n < (2 ^ Precision) * q THEN q ELSE Spacing(n, 2 * q)

\* the number nearest to n, the one with the even significand on a tie
Nearest(n) ==
    LET q == Spacing(n, 1)
        below == n - (n % q)
    IN  IF 2 * (n % q) < q THEN below
        ELSE IF 2 * (n % q) > q THEN below + q
        ELSE IF (below \div q) % 2 = 0 THEN below
        ELSE below + q

\* x + y on numbers (line 406)
Plus(x, y) == Nearest(x + y)

\* x < y for tentative distances, Infinity being larger than every number
Less(x, y) == x # Infinity /\ (y = Infinity \/ x < y)

\* Math.round of a distance of d/Scale metres
Round(d) == (2 * d + Scale) \div (2 * Scale)

\* lines 365-373: no adjacency list can be built when a list is no list or an
\* endpoint of a connection has no entry (graph[edge.a] is undefined)
AdjacencyThrows(g) ==
    \/ g.kind = "null"
    \/ ~IsArray(g.nodes)
    \/ ~IsArray(g.edges)
    \/ LET ids == Range(NodeIds(g))
       IN  \E i \in DOMAIN g.edges.items :
              g.edges.items[i].a \notin ids \/ g.edges.items[i].b \notin ids

\* EdgeEntries with a fault: the connection is entered at its endpoint a only
\* (line 372 left out)
EdgeEntriesOneWay(edge, id) ==
    IF edge.a = id THEN <<[node |-> edge.b, distance |-> edge.dist]>> ELSE <<>>

\* the entries pushed for one connection on the list of waypoint id
EdgeEntries(edge, id) ==
    (IF edge.a = id THEN <<[node |-> edge.b, distance |-> edge.dist]>> ELSE <<>>)
    \o (IF edge.b = id THEN <<[node |-> edge.a, distance |-> edge.dist]>> ELSE <<>>)

RECURSIVE NeighborList(_, _)
NeighborList(edges, id) ==
    IF edges = <<>> THEN <<>>
    ELSE EdgeEntries(Head(edges), id) \o NeighborList(Tail(edges), id)

\* lines 365-373: the adjacency list
Adjacency(g) == [id \in Range(NodeIds(g)) |-> NeighborList(g.edges.items, id)]

\* lines 390-397: the first unvisited waypoint, in the order of the set, whose
\* distance is below every distance seen before it; Undefined stands for null
RECURSIVE SelectMin(_, _, _, _)
SelectMin(unvisited, distances, current, minDistance) ==
    IF unvisited = <<>> THEN current
    ELSE IF Less(distances[Head(unvisited)], minDistance)
         THEN SelectMin(Tail(unvisited), distances, Head(unvisited), distances[Head(unvisited)])
         ELSE SelectMin(Tail(unvisited), distances, current, minDistance)

\* Relax with a fault: a label is set once and never improved
RECURSIVE RelaxFirstLabel(_, _, _)
RelaxFirstLabel(neighbors, current, st) ==
    IF neighbors = <<>> THEN st
    ELSE LET neighbor == Head(neighbors)
             alt == Plus(st.distances[current], neighbor.distance)
         IN  RelaxFirstLabel(Tail(neighbors), current,
                   IF st.distances[neighbor.node] = Infinity
                   THEN [distances |-> [st.distances EXCEPT ![neighbor.node] = alt],
                         previous |-> [st.previous EXCEPT ![neighbor.node] = current]]
                   ELSE st)

\* lines 405-411: the neighbours of current, relaxed in the order of its list
RECURSIVE Relax(_, _, _)
Relax(neighbors, current, st) ==
    IF neighbors = <<>> THEN st
    ELSE LET neighbor == Head(neighbors)
             alt == Plus(st.distances[current], neighbor.distance)
         IN  Relax(Tail(neighbors), current,
                   IF Less(alt, st.distances[neighbor.node])
                   THEN [distances |-> [st.distances EXCEPT ![neighbor.node] = alt],
                         previous |-> [st.previous EXCEPT ![neighbor.node] = current]]
                   ELSE st)

\* Without with a fault: nothing is deleted
WithoutNothing(s, x) == s

\* line 401: unvisited.delete(current)
Without(s, x) == SelectSeq(s, LAMBDA y : y # x)

\* lines 388-413: the selection loop
RECURSIVE MainLoop(_, _, _)
MainLoop(adj, unvisited, st) ==
    IF unvisited = <<>> THEN st
    ELSE LET current == SelectMin(unvisited, st.distances, Undefined, Infinity)
         IN  IF current = Undefined THEN st
             ELSE MainLoop(adj, Without(unvisited, current),
                           IF current \in DOMAIN adj
                           THEN Relax(adj[current], current, st)
                           ELSE st)

\* lines 381-386
InitialLabels(g, startId) ==
    LET ids == Range(NodeIds(g))
    IN  [distances |-> [id \in ids \cup {startId} |-> IF id = startId THEN 0 ELSE Infinity],
         previous |-> [id \in ids |-> Undefined]]

\* lines 418-423: the walk back over previous; fuel is the number of waypoints
\* it may still prepend before it is known to go on forever (a link that is
\* undefined rather than null never ends it); the empty path stands for a walk
\* that never ends
RECURSIVE Reconstruct(_, _, _, _)
Reconstruct(previous, current, path, fuel) ==
    IF current \notin DOMAIN previous THEN <<>>
    ELSE IF fuel = 0 THEN <<>>
    ELSE IF previous[current] = Undefined THEN <<current>> \o path
    ELSE Reconstruct(previous, previous[current], <<current>> \o path, fuel - 1)

NodeOf(g, id) == FirstIndex({i \in DOMAIN g.nodes.items : g.nodes.items[i].id = id})

\* EdgeBetween with a fault: only a connection from u to v is looked for
\* (line 439 left out)
EdgeBetweenForward(g, u, v) ==
    FirstIndex({i \in DOMAIN g.edges.items :
                    g.edges.items[i].a = u /\ g.edges.items[i].b = v})

\* lines 437-440
EdgeBetween(g, u, v) ==
    FirstIndex({i \in DOMAIN g.edges.items :
                    \/ g.edges.items[i].a = u /\ g.edges.items[i].b = v
                    \/ g.edges.items[i].b = u /\ g.edges.items[i].a = v})

\* lines 432-450
generateSteps(g, path) ==
    [i \in 1..(Len(path) - 1) |->
        LET from == g.nodes.items[NodeOf(g, path[i])]
            to == g.nodes.items[NodeOf(g, path[i + 1])]
            edge == EdgeBetween(g, from.id, to.id)
        IN  [from |-> NameOf(from),
             to |-> NameOf(to),
             distance |-> IF edge # 0 THEN g.edges.items[edge].dist ELSE 0,
             description |-> <<"Head towards", NameOf(to)>>]]

\* Result with a fault: line 416 left out
ResultWithoutNull(g, st, endId) ==
    IF endId \notin DOMAIN st.distances THEN [kind |-> "forever"]
    ELSE LET path == Reconstruct(st.previous, endId, <<>>, Len(NodeIds(g)))
         IN  IF path = <<>> THEN [kind |-> "forever"]
             ELSE [kind |-> "route",
                   path |-> path,
                   distance |-> Round(st.distances[endId]),
                   steps |-> generateSteps(g, path)]

\* lines 415-429, given the labels the loop ended with
Result(g, st, endId) ==
    IF endId \notin DOMAIN st.distances THEN [kind |-> "forever"]
    ELSE IF st.distances[endId] = Infinity THEN [kind |-> "null"]
    ELSE LET path == Reconstruct(st.previous, endId, <<>>, Len(NodeIds(g)))
         IN  IF path = <<>> THEN [kind |-> "forever"]
             ELSE [kind |-> "route",
                   path |-> path,
                   distance |-> Round(st.distances[endId]),
                   steps |-> generateSteps(g, path)]

\* lines 363-430.  The outcome is a route, null, an exception ("throws") or a
\* loop that never ends ("forever")
dijkstra(g, startId, endId) ==
    IF AdjacencyThrows(g) THEN [kind |-> "throws"]
    ELSE Result(g,
                MainLoop(Adjacency(g), NodeIds(g), InitialLabels(g, startId)),
                endId)

-----------------------------------------------------------------------------
(* Derived state: addMarkers, buildSearchIndex, populateSelects, displayRoute *)

NoMarkers == [id \in {} |-> [node |-> 0, dragging |-> FALSE]]

\* the first waypoint for which L.marker / node.lat.toFixed throws (0: none)
FirstWithoutCoords(g) == FirstIndex({i \in DOMAIN g.nodes.items : ~HasCoords(g.nodes.items[i])})

\* lines 168-195: the waypoints that get a marker before addMarkers ends or throws
MarkedUpTo(g) ==
    IF ~IsArray(g.nodes) THEN 0
    ELSE IF FirstWithoutCoords(g) = 0 THEN Len(g.nodes.items)
    ELSE FirstWithoutCoords(g) - 1

addMarkersThrows(g) == g.kind = "null" \/ ~IsArray(g.nodes) \/ FirstWithoutCoords(g) # 0

\* lines 168-195, on an empty this.markers: a later waypoint of the same id
\* replaces the marker of an earlier one; markers are created not draggable
addMarkers(g) ==
    [id \in {g.nodes.items[i].id : i \in 1..MarkedUpTo(g)} |->
        [node |-> CHOOSE i \in 1..MarkedUpTo(g) :
                     /\ g.nodes.items[i].id = id
                     /\ \A j \in (i + 1)..MarkedUpTo(g) : g.nodes.items[j].id # id,
         dragging |-> FALSE]]

\* String.prototype.toLowerCase on the display names the model uses
toLowerCase(name) ==
    CASE name = "Main Gate" -> "main gate"
      [] name = "Entrance Junction" -> "entrance junction"
      [] name = "Admin Block 1" -> "admin block 1"
      [] name = "Hostel 1" -> "hostel 1"
      [] name = "Academic Block 1" -> "academic block 1"
      [] name = "Academic Block 2" -> "academic block 2"
      [] name = "Library" -> "library"
      [] name = "Cafeteria" -> "cafeteria"
      [] name = "Sports Complex" -> "sports complex"
      [] name = "Auditorium" -> "auditorium"
      [] name = "Parking Area" -> "parking area"
      [] name = "North Junction" -> "north junction"
      [] name = "East Junction" -> "east junction"
      [] name = "South Junction" -> "south junction"
      [] name = "West Junction" -> "west junction"
      [] name = "Center Junction" -> "center junction"
      [] name = "Alpha" -> "alpha"
      [] name = "Beta" -> "beta"
      [] name = "Gamma" -> "gamma"
      [] name = "Delta" -> "delta"
      [] OTHER -> name

\* line 201 throws for a waypoint without a name
buildSearchIndexThrows(g) ==
    g.kind = "null" \/ ~IsArray(g.nodes) \/ \E i \in DOMAIN g.nodes.items : "name" \notin DOMAIN g.nodes.items[i]

\* lines 197-203
buildSearchIndex(g) ==
    [i \in DOMAIN g.nodes.items |->
        [id |-> g.nodes.items[i].id,
         name |-> g.nodes.items[i].name,
         searchText |-> toLowerCase(g.nodes.items[i].name)]]

\* lines 205-220: the option values added to both selects
populateSelects(g) == [i \in DOMAIN g.nodes.items |-> g.nodes.items[i].id]

NoRoute == [path |-> <<>>, coords |-> <<>>]

\* lines 454-457 and 459: L.polyline throws on a coordinate that is undefined
displayRouteThrows(g, routeData) ==
    \E i \in DOMAIN routeData.path : ~HasCoords(g.nodes.items[NodeOf(g, routeData.path[i])])

\* lines 452-487: the polyline kept in this.currentRoute
displayRoute(g, routeData) ==
    [path |-> routeData.path,
     coords |-> [i \in DOMAIN routeData.path |->
                    LET node == g.nodes.items[NodeOf(g, routeData.path[i])]
                    IN  <<node.lat, node.lng>>]]

\* lines 489-514: what #routeOutput shows for a route
displayRouteInfo(g, routeData) ==
    [kind |-> "route",
     from |-> NameOf(g.nodes.items[NodeOf(g, routeData.path[1])]),
     distance |-> routeData.distance,
     to |-> NameOf(g.nodes.items[NodeOf(g, routeData.path[Len(routeData.path)])]),
     steps |-> [i \in DOMAIN routeData.steps |->
                   [description |-> routeData.steps[i].description,
                    distance |-> routeData.steps[i].distance]]]

Toast(type, message) == [type |-> type, message |-> message]
NoToast == Toast("none", "none")

Placeholder == [kind |-> "placeholder"]

-----------------------------------------------------------------------------
(* JSON.stringify and JSON.parse.  The text of an object is the sequence of  *)
(* the members it writes, a member being <<key, text of the value>>; the     *)
(* text of a string holds the string, the text of a number the decimal that  *)
(* NumberText writes, the text of a list the texts of its elements.          *)

\* coordinates are multiples of 1/CoordUnit degree
CoordUnit == 10000

\* NumberText with a fault: the digits after the point are not written
NumberTextWhole(n, unit) ==
    [kind |-> "number", whole |-> n \div unit, frac |-> 0, unit |-> unit]

\* the decimal of the number n/unit: the digits before and after the point
NumberText(n, unit) ==
    [kind |-> "number", whole |-> n \div unit, frac |-> n % unit, unit |-> unit]

StringText(str) == [kind |-> "string", str |-> str]

\* the members of a waypoint record, in the order of its keys
NodeText(node) ==
    LET keys == SelectSeq(<<"id", "name", "lat", "lng">>, LAMBDA k : k \in DOMAIN node)
    IN  [i \in DOMAIN keys |->
            <<keys[i], IF keys[i] \in {"lat", "lng"}
                       THEN NumberText(node[keys[i]], CoordUnit)
                       ELSE StringText(node[keys[i]])>>]

EdgeText(edge) ==
    <<<<"a", StringText(edge.a)>>, <<"b", StringText(edge.b)>>,
      <<"dist", NumberText(edge.dist, Scale)>>>>

\* the member for nodes (waypoints) or edges: a list, an object that is no
\* list, or no member at all for a value that is undefined
ListMember(key, v, waypoints) ==
    IF v.kind = "array"
    THEN <<<<key, [kind |-> "list",
                   items |-> [i \in DOMAIN v.items |->
                                 IF waypoints THEN NodeText(v.items[i])
                                 ELSE EdgeText(v.items[i])]]>>>>
    ELSE IF v.kind = "object" THEN <<<<key, [kind |-> "object", items |-> <<>>]>>>>
    ELSE <<>>

\* line 631: JSON.stringify(this.graph, null, 2)
JSONstringify(g) ==
    IF g.kind = "null" THEN [kind |-> "null", members |-> <<>>]
    ELSE [kind |-> "object",
          members |-> ListMember("nodes", g.nodes, TRUE)
                      \o ListMember("edges", g.edges, FALSE)
                      \o <<<<"metadata", StringText(g.metadata)>>>>]

\* the value the text of a string or of a number is read as
ParseValue(text) ==
    IF text.kind = "string" THEN text.str ELSE text.whole * text.unit + text.frac

\* the last member of key among members (0: none)
LastMember(members, key) ==
    IF \A i \in DOMAIN members : members[i][1] # key THEN 0
    ELSE CHOOSE i \in DOMAIN members :
            members[i][1] = key /\ \A j \in DOMAIN members : members[j][1] = key => j <= i

\* the record a sequence of members is read as
ParseRecord(members) ==
    [k \in {members[i][1] : i \in DOMAIN members} |->
        ParseValue(members[LastMember(members, k)][2])]

\* the value of the member key of an object, Missing without such a member
ParseList(members, key) ==
    IF LastMember(members, key) = 0 THEN Missing
    ELSE LET text == members[LastMember(members, key)][2]
         IN  IF text.kind = "list"
             THEN Arr([i \in DOMAIN text.items |-> ParseRecord(text.items[i])])
             ELSE NotAList

\* line 651: JSON.parse(text)
JSONparse(text) ==
    IF text.kind = "null" THEN NullValue
    ELSE Snapshot(ParseList(text.members, "nodes"), ParseList(text.members, "edges"),
                  ParseValue(text.members[LastMember(text.members, "metadata")][2]))

-----------------------------------------------------------------------------
(* Inputs *)

Na == N("a", "Alpha", 10, 10)
Nb == N("b", "Beta", 10, 20)
Nc == N("c", "Gamma", 20, 10)
Nd == N("d", "Delta", 20, 20)

\* three waypoints, the direct connection a-c longer than the way over b
GraphGood ==
    Snapshot(Arr(<<Na, Nb, Nc>>), Arr(<<E("a", "c", 3), E("a", "b", 1), E("b", "c", 1)>>), "good")
\* the second connection ends at c, which is no waypoint of the snapshot
GraphDangling ==
    Snapshot(Arr(<<Na, Nb>>), Arr(<<E("a", "b", 1), E("b", "c", 1)>>), "dangling")
GraphNoNodes == Snapshot(Missing, Arr(<<E("a", "b", 1)>>), "no nodes")
GraphNoEdges == Snapshot(Arr(<<Na, Nb>>), Missing, "no edges")
GraphNodesObject == Snapshot(NotAList, Arr(<<>>), "nodes is an object")
\* the second waypoint has no coordinates
GraphNoCoords ==
    Snapshot(Arr(<<Na, [id |-> "b", name |-> "Beta"]>>), Arr(<<E("a", "b", 1)>>), "no coordinates")

File(json) == [parse |-> "ok", json |-> json]
\* a file whose text JSON.parse rejects
FileGarbage == [parse |-> "error", json |-> NullValue]
\* no file chosen in the dialog: files[0] is undefined
NoFile == [parse |-> "nofile", json |-> NullValue]

\* the files a user imports
Files ==
    {File(GraphGood), File(GraphDangling), File(GraphNoNodes), File(GraphNoEdges),
     File(GraphNodesObject), File(GraphNoCoords), FileGarbage}

\* what fetch('./data/distances.json') and response.json() do: the request is
\* rejected, the answer (a 404 page, a broken file) is not JSON, or a value is parsed
FetchOutcomes ==
    {[kind |-> "rejected", json |-> NullValue],
     [kind |-> "notfound", json |-> NullValue],
     [kind |-> "unparseable", json |-> NullValue],
     [kind |-> "json", json |-> GraphGood],
     [kind |-> "json", json |-> GraphDangling],
     [kind |-> "json", json |-> GraphNoNodes]}

\* the waypoints a user selects in the route finder
UserIds == {"a", "c", "main_gate", "library"}

\* the waypoints whose markers a user drags
DragIds == {"a", "main_gate"}

\* where a dragged marker is dropped
DragPositions == {[lat |-> 30, lng |-> 30]}

-----------------------------------------------------------------------------
(* The application.  lastQuery and lastResult describe the handler that ran  *)
(* last when it was findRoute, lastImport when it was the continuation of    *)
(* importGraph; after any other handler they hold NoQuery, NoResult and      *)
(* NoImport.                                                                 *)

NoQuery == [start |-> "", end |-> ""]
NoResult == [result |-> [kind |-> "none"], toast |-> NoToast]
NoImport == [file |-> NoFile, outcome |-> "none", toast |-> NoToast]
\* nothing exported yet
NoDownload == [text |-> [kind |-> "none", members |-> <<>>], of |-> NullValue]
\* no call of dijkstra is taken step by step
NoRun ==
    [phase |-> "idle", startId |-> "", endId |-> "", adj |-> <<>>, unvisited |-> <<>>,
     distances |-> <<>>, previous |-> <<>>, current |-> Undefined, path |-> <<>>,
     iterations |-> 0, selected |-> <<>>, walked |-> 0, observed |-> {}]

Init ==
    /\ pc = "loading"
    /\ graph = NullValue
    /\ markers = NoMarkers
    /\ searchIndex = <<>>
    /\ selectOptions = <<>>
    /\ currentRoute = NoRoute
    /\ routeOutput = [kind |-> "empty"]
    /\ isAdminMode = FALSE
    /\ pending = {}
    /\ loadError = FALSE
    /\ lastQuery = NoQuery
    /\ lastResult = NoResult
    /\ lastImport = NoImport
    /\ imports = 0
    /\ downloaded = NoDownload
    /\ run = NoRun

\* line 52: fetch or response.json() rejects
fetchFails(outcome) == outcome.kind # "json"

\* loadGraphData with a fault: no catch, the failure reaches the catch of init
loadGraphDataRethrows(outcome) ==
    /\ pc = "loading"
    /\ IF fetchFails(outcome)
       THEN pc' = "initError" /\ loadError' = TRUE /\ UNCHANGED graph
       ELSE pc' = "loaded" /\ graph' = outcome.json /\ loadError' = FALSE
    /\ UNCHANGED <<markers, searchIndex, selectOptions, currentRoute, routeOutput, isAdminMode,
                   pending, lastQuery, lastResult, lastImport, imports>>
    /\ UNCHANGED <<downloaded, run>>

\* lines 48-57, awaited by init (line 26)
loadGraphData(outcome) ==
    /\ pc = "loading"
    /\ pc' = "loaded"
    /\ IF fetchFails(outcome)
       THEN graph' = getDefaultGraphData /\ loadError' = TRUE
       ELSE graph' = outcome.json /\ loadError' = FALSE
    /\ UNCHANGED <<markers, searchIndex, selectOptions, currentRoute, routeOutput, isAdminMode,
                   pending, lastQuery, lastResult, lastImport, imports>>
    /\ UNCHANGED <<downloaded, run>>

\* lines 27-37: init after loadGraphData.  initMap (lines 120-143) reads
\* this.graph.metadata and adds the markers; initUI attaches the handlers.
\* pc "ready": the try block ended (toast 'Campus map loaded successfully!');
\* "initError": the catch block ran before initUI (toast 'Error loading campus
\* data'); "uiOnly": it ran after initUI
init ==
    /\ pc = "loaded"
    /\ markers' = addMarkers(graph)
    /\ IF addMarkersThrows(graph)
       THEN /\ pc' = "initError"
            /\ UNCHANGED <<searchIndex, selectOptions>>
       ELSE IF buildSearchIndexThrows(graph)
       THEN /\ pc' = "uiOnly"
            /\ UNCHANGED <<searchIndex, selectOptions>>
       ELSE /\ pc' = "ready"
            /\ searchIndex' = buildSearchIndex(graph)
            /\ selectOptions' = populateSelects(graph)
    /\ UNCHANGED <<graph, currentRoute, routeOutput, isAdminMode, pending, loadError,
                   lastQuery, lastResult, lastImport, imports>>
    /\ UNCHANGED <<downloaded, run>>

\* the handlers of initUI (lines 222-290) are attached and no handler is looping
Interactive == pc \in {"ready", "uiOnly"}

\* the values the user can give the two selects, among the waypoints ids
Selectable(ids) == {""} \cup (Range(selectOptions) \cap ids)

\* line 338
notSelected(startId, endId) == startId = "" \/ endId = ""

\* sameLocation with a fault: the test of line 343 left out
sameLocationNever(startId, endId) == FALSE

\* line 343
sameLocation(startId, endId) == startId = endId

\* lines 334-361: a click on #findRouteBtn with the two selects at startId,
\* endId.  (The result of dijkstra is bound by \E so that it is computed once.)
findRoute(startId, endId) ==
    /\ Interactive
    /\ lastQuery' = [start |-> startId, end |-> endId]
    /\ lastImport' = NoImport
    /\ IF notSelected(startId, endId)
       THEN /\ lastResult' = [result |-> [kind |-> "not selected"],
                              toast |-> Toast("warning", "Please select both start and end locations")]
            /\ UNCHANGED <<pc, currentRoute, routeOutput>>
       ELSE IF sameLocation(startId, endId)
       THEN /\ lastResult' = [result |-> [kind |-> "rejected"],
                              toast |-> Toast("warning", "Start and end locations cannot be the same")]
            /\ UNCHANGED <<pc, currentRoute, routeOutput>>
       ELSE \E path \in {dijkstra(graph, startId, endId)} :
                CASE path.kind = "forever" ->
                      \* the handler never returns: the page no longer reacts
                      /\ pc' = "hung"
                      /\ lastResult' = [result |-> path, toast |-> NoToast]
                      /\ currentRoute' = NoRoute
                      /\ routeOutput' = Placeholder
                 [] path.kind = "throws" ->
                      \* the exception leaves the handler after clearRoute
                      /\ lastResult' = [result |-> path, toast |-> NoToast]
                      /\ currentRoute' = NoRoute
                      /\ routeOutput' = Placeholder
                      /\ UNCHANGED pc
                 [] path.kind = "null" ->
                      /\ lastResult' = [result |-> path,
                                        toast |-> Toast("error", "No route found between selected locations")]
                      /\ currentRoute' = NoRoute
                      /\ routeOutput' = Placeholder
                      /\ UNCHANGED pc
                 [] path.kind = "route" ->
                      /\ IF displayRouteThrows(graph, path)
                         THEN /\ lastResult' = [result |-> path, toast |-> NoToast]
                              /\ currentRoute' = NoRoute
                              /\ routeOutput' = Placeholder
                         ELSE /\ lastResult' = [result |-> path,
                                                toast |-> Toast("success", <<"Route found! Distance:", path.distance>>)]
                              /\ currentRoute' = displayRoute(graph, path)
                              /\ routeOutput' = displayRouteInfo(graph, path)
                      /\ UNCHANGED pc
    /\ UNCHANGED <<graph, markers, searchIndex, selectOptions, isAdminMode, pending,
                   loadError, imports>>
    /\ UNCHANGED <<downloaded, run>>

\* lines 525-543: a click on #clearRouteBtn
clearRoute ==
    /\ Interactive
    /\ currentRoute' = NoRoute
    /\ routeOutput' = Placeholder
    /\ lastQuery' = NoQuery
    /\ lastResult' = NoResult
    /\ lastImport' = NoImport
    /\ UNCHANGED <<pc, graph, markers, searchIndex, selectOptions, isAdminMode, pending,
                   loadError, imports>>
    /\ UNCHANGED <<downloaded, run>>

\* lines 545-574: a click on #adminToggle
toggleAdminMode ==
    /\ Interactive
    /\ isAdminMode' = ~isAdminMode
    /\ markers' = [id \in DOMAIN markers |-> [markers[id] EXCEPT !.dragging = ~isAdminMode]]
    /\ lastQuery' = NoQuery
    /\ lastResult' = NoResult
    /\ lastImport' = NoImport
    /\ UNCHANGED <<pc, graph, searchIndex, selectOptions, currentRoute, routeOutput, pending,
                   loadError, imports>>
    /\ UNCHANGED <<downloaded, run>>

\* dragend with a fault: the connections at the waypoint get a weight taken
\* from the new position
dragendReweighs(id, pos) ==
    /\ Interactive
    /\ id \in DOMAIN markers
    /\ markers[id].dragging
    /\ IF isAdminMode
       THEN graph' = [graph EXCEPT
                !.nodes.items[markers[id].node].lat = pos.lat,
                !.nodes.items[markers[id].node].lng = pos.lng,
                !.edges.items = [i \in DOMAIN graph.edges.items |->
                    IF id \in {graph.edges.items[i].a, graph.edges.items[i].b}
                    THEN [graph.edges.items[i] EXCEPT !.dist = pos.lat * Scale]
                    ELSE graph.edges.items[i]]]
       ELSE UNCHANGED graph
    /\ lastQuery' = NoQuery
    /\ lastResult' = NoResult
    /\ lastImport' = NoImport
    /\ UNCHANGED <<pc, markers, searchIndex, selectOptions, currentRoute, routeOutput,
                   isAdminMode, pending, loadError, imports>>
    /\ UNCHANGED <<downloaded, run>>

\* lines 184-191: the drag of the marker of waypoint id ends at pos; only a
\* marker whose dragging is enabled can be dragged
dragend(id, pos) ==
    /\ Interactive
    /\ id \in DOMAIN markers
    /\ markers[id].dragging
    /\ IF isAdminMode
       THEN graph' = [graph EXCEPT !.nodes.items[markers[id].node].lat = pos.lat,
                                   !.nodes.items[markers[id].node].lng = pos.lng]
       ELSE UNCHANGED graph
    /\ lastQuery' = NoQuery
    /\ lastResult' = NoResult
    /\ lastImport' = NoImport
    /\ UNCHANGED <<pc, markers, searchIndex, selectOptions, currentRoute, routeOutput,
                   isAdminMode, pending, loadError, imports>>
    /\ UNCHANGED <<downloaded, run>>

\* lines 630-644: a click on #exportBtn; the browser saves the text
exportGraph ==
    /\ Interactive
    /\ downloaded' = [text |-> JSONstringify(graph), of |-> graph]
    /\ lastQuery' = NoQuery
    /\ lastResult' = NoResult
    /\ lastImport' = NoImport
    /\ UNCHANGED <<pc, graph, markers, searchIndex, selectOptions, currentRoute, routeOutput,
                   isAdminMode, pending, loadError, imports, run>>

\* the file with the text that exportGraph saved, as importGraph reads it
\* (lines 650-651)
FileOfText(text) == [parse |-> "ok", json |-> JSONparse(text)]

\* lines 646-650: importGraph(file) up to its await of file.text()
importGraph(file) ==
    /\ Interactive
    /\ IF file = NoFile
       THEN UNCHANGED <<pending, imports>>
       ELSE /\ file \notin pending
            /\ pending' = pending \cup {file}
            /\ imports' = imports + 1
    /\ lastQuery' = NoQuery
    /\ lastResult' = NoResult
    /\ lastImport' = NoImport
    /\ UNCHANGED <<pc, graph, markers, searchIndex, selectOptions, currentRoute, routeOutput,
                   isAdminMode, loadError>>
    /\ UNCHANGED <<downloaded, run>>

\* line 651: JSON.parse throws, or newGraph is null and line 654 throws
notAnObject(file) == file.parse = "error" \/ file.json.kind = "null"

\* invalidStructure with a fault: only the waypoint collection is looked at
invalidStructureNodesOnly(newGraph) == Falsy(newGraph.nodes)

\* line 654
invalidStructure(newGraph) == Falsy(newGraph.nodes) \/ Falsy(newGraph.edges)

\* lines 672-675
ImportError(file, outcome) ==
    [file |-> file, outcome |-> outcome, toast |-> Toast("error", "Error importing graph data")]

\* importGraphResume with a fault: the waypoints of the file are installed
\* with the connections of the graph in place followed by those of the file
importGraphResumeMerging(file) ==
    /\ pc # "hung"
    /\ file \in pending
    /\ pending' = pending \ {file}
    /\ lastQuery' = NoQuery
    /\ lastResult' = NoResult
    /\ IF notAnObject(file)
       THEN /\ lastImport' = ImportError(file, "no object")
            /\ UNCHANGED <<graph, markers, searchIndex, selectOptions, currentRoute, routeOutput>>
       ELSE IF invalidStructure(file.json)
       THEN /\ lastImport' = ImportError(file, "invalid structure")
            /\ UNCHANGED <<graph, markers, searchIndex, selectOptions, currentRoute, routeOutput>>
       ELSE /\ graph' = [file.json EXCEPT
                            !.edges.items = IF IsArray(graph.edges) /\ IsArray(file.json.edges)
                                            THEN graph.edges.items \o file.json.edges.items
                                            ELSE file.json.edges.items]
            /\ currentRoute' = NoRoute
            /\ routeOutput' = Placeholder
            /\ markers' = addMarkers(file.json)
            /\ IF addMarkersThrows(file.json)
               THEN /\ lastImport' = ImportError(file, "addMarkers threw")
                    /\ UNCHANGED <<searchIndex, selectOptions>>
               ELSE IF buildSearchIndexThrows(file.json)
               THEN /\ lastImport' = ImportError(file, "buildSearchIndex threw")
                    /\ UNCHANGED <<searchIndex, selectOptions>>
               ELSE /\ searchIndex' = buildSearchIndex(file.json)
                    /\ selectOptions' = populateSelects(file.json)
                    /\ lastImport' = [file |-> file, outcome |-> "imported",
                                      toast |-> Toast("success", "Graph data imported successfully")]
    /\ UNCHANGED <<pc, isAdminMode, loadError, imports>>
    /\ UNCHANGED <<downloaded, run>>

\* lines 650-675: importGraph from the moment the text of file arrives
importGraphResume(file) ==
    /\ pc # "hung"
    /\ file \in pending
    /\ pending' = pending \ {file}
    /\ lastQuery' = NoQuery
    /\ lastResult' = NoResult
    /\ IF notAnObject(file)
       THEN /\ lastImport' = ImportError(file, "no object")
            /\ UNCHANGED <<graph, markers, searchIndex, selectOptions, currentRoute, routeOutput>>
       ELSE IF invalidStructure(file.json)
       THEN /\ lastImport' = ImportError(file, "invalid structure")
            /\ UNCHANGED <<graph, markers, searchIndex, selectOptions, currentRoute, routeOutput>>
       ELSE /\ graph' = file.json
            /\ currentRoute' = NoRoute
            /\ routeOutput' = Placeholder
            /\ markers' = addMarkers(file.json)
            /\ IF addMarkersThrows(file.json)
               THEN /\ lastImport' = ImportError(file, "addMarkers threw")
                    /\ UNCHANGED <<searchIndex, selectOptions>>
               ELSE IF buildSearchIndexThrows(file.json)
               THEN /\ lastImport' = ImportError(file, "buildSearchIndex threw")
                    /\ UNCHANGED <<searchIndex, selectOptions>>
               ELSE /\ searchIndex' = buildSearchIndex(file.json)
                    /\ selectOptions' = populateSelects(file.json)
                    /\ lastImport' = [file |-> file, outcome |-> "imported",
                                      toast |-> Toast("success", "Graph data imported successfully")]
    /\ UNCHANGED <<pc, isAdminMode, loadError, imports>>
    /\ UNCHANGED <<downloaded, run>>

Next ==
    \/ \E outcome \in FetchOutcomes : loadGraphData(outcome)
    \/ init
    \/ \E startId \in Selectable(UserIds), endId \in Selectable(UserIds) : findRoute(startId, endId)
    \/ clearRoute
    \/ toggleAdminMode
    \/ \E id \in DragIds, pos \in DragPositions : dragend(id, pos)
    \/ \E file \in Files \cup {NoFile} : imports < MaxImports /\ importGraph(file)
    \/ \E file \in Files : importGraphResume(file)

Spec == Init /\ [][Next]_vars

\* the files whose import succeeds or is rejected by the structure check
SyncFiles == {File(GraphGood), File(GraphDangling), File(GraphNoNodes), File(GraphNoEdges)}

\* as Next, with the files of SyncFiles
SyncNext ==
    \/ \E outcome \in FetchOutcomes : loadGraphData(outcome)
    \/ init
    \/ \E startId \in Selectable(UserIds), endId \in Selectable(UserIds) : findRoute(startId, endId)
    \/ clearRoute
    \/ toggleAdminMode
    \/ \E id \in DragIds, pos \in DragPositions : dragend(id, pos)
    \/ \E file \in SyncFiles : imports < MaxImports /\ importGraph(file)
    \/ \E file \in SyncFiles : importGraphResume(file)

SyncSpec == Init /\ [][SyncNext]_vars

-----------------------------------------------------------------------------
(* The route finder on every valid graph of a bounded family: four waypoints *)
(* and at most MaxEdges connections out of EdgeChoices, of 1, 3 or Huge      *)
(* units.                                                                    *)

RouteNodes == <<Na, Nb, Nc, Nd>>

\* the least weight to which a unit cannot be added
Huge == 2 ^ Precision

EdgeChoices == <<
    EFrac("a", "b", 1), EFrac("b", "a", 3),
    EFrac("c", "a", 1), EFrac("a", "c", Huge),
    EFrac("a", "d", 1), EFrac("d", "a", 3),
    EFrac("b", "c", 1), EFrac("c", "b", 3),
    EFrac("d", "b", 1), EFrac("b", "d", Huge),
    EFrac("c", "d", Huge), EFrac("d", "c", 1) >>

\* the connections chosen by the set of indices chosen, in the order of EdgeChoices
ChosenEdges(chosen) ==
    LET idx == SelectSeq([i \in DOMAIN EdgeChoices |-> i], LAMBDA i : i \in chosen)
    IN  [k \in DOMAIN idx |-> EdgeChoices[idx[k]]]

RouteGraphs ==
    {Snapshot(Arr(RouteNodes), Arr(ChosenEdges(chosen)), "route") :
        chosen \in {c \in SUBSET DOMAIN EdgeChoices : Cardinality(c) <= MaxEdges}}

\* the state init leaves when ./data/distances.json holds g
RouteInit ==
    /\ pc = "ready"
    /\ graph \in RouteGraphs
    /\ markers = addMarkers(graph)
    /\ searchIndex = buildSearchIndex(graph)
    /\ selectOptions = populateSelects(graph)
    /\ currentRoute = NoRoute
    /\ routeOutput = [kind |-> "empty"]
    /\ isAdminMode = FALSE
    /\ pending = {}
    /\ loadError = FALSE
    /\ lastQuery = NoQuery
    /\ lastResult = NoResult
    /\ lastImport = NoImport
    /\ imports = 0
    /\ downloaded = NoDownload
    /\ run = NoRun

RouteNext ==
    \/ \E startId \in Range(selectOptions), endId \in Range(selectOptions) :
          findRoute(startId, endId)
    \/ clearRoute

RouteSpec == RouteInit /\ [][RouteNext]_vars

-----------------------------------------------------------------------------
(* Export and import of the export, on every graph of the family of the      *)
(* route specification and on the built-in graph, with position edits.       *)

\* the state init leaves when ./data/distances.json holds a graph of the
\* family, or does not exist
ExportInit ==
    /\ pc = "ready"
    /\ graph \in RouteGraphs \cup {getDefaultGraphData}
    /\ markers = addMarkers(graph)
    /\ searchIndex = buildSearchIndex(graph)
    /\ selectOptions = populateSelects(graph)
    /\ currentRoute = NoRoute
    /\ routeOutput = [kind |-> "empty"]
    /\ isAdminMode = FALSE
    /\ pending = {}
    /\ loadError = FALSE
    /\ lastQuery = NoQuery
    /\ lastResult = NoResult
    /\ lastImport = NoImport
    /\ imports = 0
    /\ downloaded = NoDownload
    /\ run = NoRun

ExportNext ==
    \/ toggleAdminMode
    \/ \E id \in DragIds, pos \in DragPositions : dragend(id, pos)
    \/ exportGraph
    \/ downloaded # NoDownload /\ imports < MaxImports /\ importGraph(FileOfText(downloaded.text))
    \/ \E file \in pending : importGraphResume(file)

ExportSpec == ExportInit /\ [][ExportNext]_vars

-----------------------------------------------------------------------------
(* findRoute -> dijkstra taken step by step: one step for each iteration of  *)
(* the selection loop and of the walk back.  run holds the local variables   *)
(* of the call; selected, iterations, walked and observed record what the    *)
(* call did: the waypoints selected, the iterations of the loop, the steps   *)
(* of the walk back, and the values of this.graph that it read.              *)

\* the call is between its first and its last statement
Running == run.phase \in {"loop", "walk", "built"}

\* HandlerMayStart with a fault: a handler starts while another one runs
HandlerMayStartAnytime == TRUE

\* the event loop starts a handler, or continues importGraph after its await,
\* only when no handler runs: findRoute, dijkstra, generateSteps and
\* displayRoute have no await (lines 334-514)
HandlerMayStart == ~Running

\* how findRoute ends after dijkstra returned or threw
Ended(result, toast) ==
    /\ run' = [run EXCEPT !.phase = "done"]
    /\ lastResult' = [result |-> result, toast |-> toast]

\* lines 335-349 and 365-386: findRoute up to the selection loop of dijkstra
beginRoute(startId, endId) ==
    /\ Interactive
    /\ HandlerMayStart
    /\ IF notSelected(startId, endId) \/ sameLocation(startId, endId)
       THEN findRoute(startId, endId)
       ELSE /\ lastQuery' = [start |-> startId, end |-> endId]
            /\ lastImport' = NoImport
            /\ currentRoute' = NoRoute
            /\ routeOutput' = Placeholder
            /\ IF AdjacencyThrows(graph)
               THEN /\ run' = [NoRun EXCEPT !.phase = "done", !.startId = startId,
                                            !.endId = endId, !.observed = {graph}]
                    /\ lastResult' = [result |-> [kind |-> "throws"], toast |-> NoToast]
               ELSE /\ run' = [NoRun EXCEPT
                                 !.phase = "loop", !.startId = startId, !.endId = endId,
                                 !.adj = Adjacency(graph),
                                 !.unvisited = NodeIds(graph),
                                 !.distances = InitialLabels(graph, startId).distances,
                                 !.previous = InitialLabels(graph, startId).previous,
                                 !.observed = {graph}]
                    /\ lastResult' = NoResult
            /\ UNCHANGED <<pc, graph, markers, searchIndex, selectOptions, isAdminMode,
                           pending, loadError, imports, downloaded>>

\* lines 388-419: one iteration of the selection loop, or its end (the set is
\* empty, or line 399 breaks), line 416 and the start of the walk back
loopStep ==
    /\ run.phase = "loop"
    /\ \E current \in {SelectMin(run.unvisited, run.distances, Undefined, Infinity)} :
          IF run.unvisited # <<>> /\ current # Undefined
          THEN /\ \E st \in {IF current \in DOMAIN run.adj
                               THEN Relax(run.adj[current], current,
                                          [distances |-> run.distances, previous |-> run.previous])
                               ELSE [distances |-> run.distances, previous |-> run.previous]} :
                      run' = [run EXCEPT !.unvisited = Without(run.unvisited, current),
                                         !.distances = st.distances,
                                         !.previous = st.previous,
                                         !.iterations = run.iterations + 1,
                                         !.selected = Append(run.selected, current)]
               /\ UNCHANGED <<pc, lastResult>>
          ELSE IF run.endId \in DOMAIN run.distances /\ run.distances[run.endId] = Infinity
          THEN /\ Ended([kind |-> "null"],
                         Toast("error", "No route found between selected locations"))
               /\ UNCHANGED pc
          ELSE /\ run' = [run EXCEPT !.phase = "walk", !.current = run.endId]
               /\ UNCHANGED <<pc, lastResult>>
    /\ UNCHANGED <<graph, markers, searchIndex, selectOptions, currentRoute, routeOutput,
                   isAdminMode, pending, loadError, lastQuery, lastImport, imports, downloaded>>

\* lines 420-423: one iteration of the walk back.  From an id that previous
\* has no entry for, the walk never ends: current stays undefined
walkStep ==
    /\ run.phase = "walk"
    /\ IF run.current \notin DOMAIN run.previous
       THEN /\ pc' = "hung"
            /\ run' = [run EXCEPT !.phase = "forever"]
            /\ lastResult' = [result |-> [kind |-> "forever"], toast |-> NoToast]
       ELSE /\ run' = [run EXCEPT
                         !.path = <<run.current>> \o run.path,
                         !.current = run.previous[run.current],
                         !.walked = run.walked + 1,
                         !.phase = IF run.previous[run.current] = Undefined
                                   THEN "built" ELSE "walk"]
            /\ UNCHANGED <<pc, lastResult>>
    /\ UNCHANGED <<graph, markers, searchIndex, selectOptions, currentRoute, routeOutput,
                   isAdminMode, pending, loadError, lastQuery, lastImport, imports, downloaded>>

\* lines 435-438: from.id throws for a waypoint of the path that
\* this.graph.nodes does not hold
generateStepsThrows(g, path) ==
    \/ ~IsArray(g.nodes) \/ ~IsArray(g.edges)
    \/ \E i \in DOMAIN path : NodeOf(g, path[i]) = 0

\* lines 425-429 and 354-360: the result of dijkstra, and findRoute after it
endRoute ==
    /\ run.phase = "built"
    /\ run' = [run EXCEPT !.phase = "done", !.observed = run.observed \cup {graph}]
    /\ IF generateStepsThrows(graph, run.path)
       THEN /\ lastResult' = [result |-> [kind |-> "throws"], toast |-> NoToast]
            /\ UNCHANGED <<currentRoute, routeOutput>>
       ELSE \E path \in {[kind |-> "route",
                           path |-> run.path,
                           distance |-> Round(run.distances[run.endId]),
                           steps |-> generateSteps(graph, run.path)]} :
               IF displayRouteThrows(graph, path)
               THEN /\ lastResult' = [result |-> path, toast |-> NoToast]
                    /\ UNCHANGED <<currentRoute, routeOutput>>
               ELSE /\ lastResult' = [result |-> path,
                                      toast |-> Toast("success", <<"Route found! Distance:", path.distance>>)]
                    /\ currentRoute' = displayRoute(graph, path)
                    /\ routeOutput' = displayRouteInfo(graph, path)
    /\ UNCHANGED <<pc, graph, markers, searchIndex, selectOptions, isAdminMode, pending,
                   loadError, lastQuery, lastImport, imports, downloaded>>

\* the route finder step by step on every graph of the family of the route
\* specification; a step that can be taken is taken
LoopNext ==
    \/ \E startId \in Range(selectOptions), endId \in Range(selectOptions) :
          beginRoute(startId, endId)
    \/ loopStep
    \/ walkStep
    \/ endRoute

LoopSpec ==
    /\ RouteInit
    /\ [][LoopNext]_vars
    /\ WF_vars(loopStep) /\ WF_vars(walkStep) /\ WF_vars(endRoute)

\* the files imported while routes are computed: the import of the first
\* succeeds, that of the second replaces the graph and fails in addMarkers
ConcurrentFiles == {File(GraphDangling), File(GraphNoCoords)}

\* the state init leaves when ./data/distances.json holds GraphGood
ConcurrentInit ==
    /\ pc = "ready"
    /\ graph = GraphGood
    /\ markers = addMarkers(graph)
    /\ searchIndex = buildSearchIndex(graph)
    /\ selectOptions = populateSelects(graph)
    /\ currentRoute = NoRoute
    /\ routeOutput = [kind |-> "empty"]
    /\ isAdminMode = FALSE
    /\ pending = {}
    /\ loadError = FALSE
    /\ lastQuery = NoQuery
    /\ lastResult = NoResult
    /\ lastImport = NoImport
    /\ imports = 0
    /\ downloaded = NoDownload
    /\ run = NoRun

\* route queries step by step, imports and position edits: whatever the user
\* does and whenever the text of a file arrives, the event loop starts the
\* handler when no handler runs
ConcurrentNext ==
    \/ \E startId \in Selectable(UserIds), endId \in Selectable(UserIds) :
          beginRoute(startId, endId)
    \/ loopStep
    \/ walkStep
    \/ endRoute
    \/ HandlerMayStart /\ toggleAdminMode
    \/ \E id \in DragIds, pos \in DragPositions : HandlerMayStart /\ dragend(id, pos)
    \/ \E file \in ConcurrentFiles :
          HandlerMayStart /\ imports < MaxImports /\ importGraph(file)
    \/ \E file \in pending : HandlerMayStart /\ importGraphResume(file)

ConcurrentSpec == ConcurrentInit /\ [][ConcurrentNext]_vars

-----------------------------------------------------------------------------
(* Notions the properties are stated with *)

\* the ids of the waypoints of g
IdSet(g) == IF IsArray(g.nodes) THEN {g.nodes.items[i].id : i \in DOMAIN g.nodes.items} ELSE {}

\* a connection of g one of whose endpoints is no waypoint of g
HasDanglingEdge(g) ==
    /\ IsArray(g.edges)
    /\ \E i \in DOMAIN g.edges.items :
          g.edges.items[i].a \notin IdSet(g) \/ g.edges.items[i].b \notin IdSet(g)

\* section 3 of the specification: complete waypoint records with unique ids,
\* connections between two different existing waypoints, positive weights
ValidGraph(g) ==
    /\ g.kind = "object"
    /\ IsArray(g.nodes)
    /\ IsArray(g.edges)
    /\ \A i \in DOMAIN g.nodes.items : DOMAIN g.nodes.items[i] = {"id", "name", "lat", "lng"}
    /\ \A i, j \in DOMAIN g.nodes.items : g.nodes.items[i].id = g.nodes.items[j].id => i = j
    /\ ~HasDanglingEdge(g)
    /\ \A i \in DOMAIN g.edges.items :
          g.edges.items[i].a # g.edges.items[i].b /\ g.edges.items[i].dist > 0

\* the weights of the connections that join u and v
WeightsBetween(g, u, v) ==
    {g.edges.items[i].dist : i \in {j \in DOMAIN g.edges.items :
        \/ g.edges.items[j].a = u /\ g.edges.items[j].b = v
        \/ g.edges.items[j].a = v /\ g.edges.items[j].b = u}}

SetMin(S) == CHOOSE x \in S : \A y \in S : x <= y

\* one more connection: the least weight of a walk from the source to v of at
\* most one connection more than d allows, Infinity when there is none
\* (f @@ <<>> is f; it makes TLC compute the function once)
Extend(g, d) ==
    [v \in DOMAIN d |->
        LET reach == (IF d[v] # Infinity THEN {d[v]} ELSE {})
                     \cup UNION {{d[u] + w : w \in WeightsBetween(g, u, v)} :
                                    u \in {x \in DOMAIN d : d[x] # Infinity}}
        IN  IF reach = {} THEN Infinity ELSE SetMin(reach)] @@ <<>>

RECURSIVE WalkDistances(_, _, _)
WalkDistances(g, d, k) == IF k = 0 THEN d ELSE WalkDistances(g, Extend(g, d), k - 1)

\* the least total weight of a walk from s to t in g, Infinity when no walk
\* exists.  With positive weights a lightest walk repeats no waypoint, so the
\* walks of at most as many connections as g has waypoints decide it.
MinWalk(g, s, t) ==
    WalkDistances(g, [v \in IdSet(g) |-> IF v = s THEN 0 ELSE Infinity], Cardinality(IdSet(g)))[t]

\* as Extend, the weights added the way the program adds numbers
ExtendRounded(g, d) ==
    [v \in DOMAIN d |->
        LET reach == (IF d[v] # Infinity THEN {d[v]} ELSE {})
                     \cup UNION {{Nearest(d[u] + w) : w \in WeightsBetween(g, u, v)} :
                                    u \in {x \in DOMAIN d : d[x] # Infinity}}
        IN  IF reach = {} THEN Infinity ELSE SetMin(reach)] @@ <<>>

RECURSIVE RoundedWalkDistances(_, _, _)
RoundedWalkDistances(g, d, k) ==
    IF k = 0 THEN d ELSE RoundedWalkDistances(g, ExtendRounded(g, d), k - 1)

\* the least, over the walks from s to t, of the weight of the walk as
\* additions of numbers accumulate it from s; Infinity when no walk exists
MinRoundedWalk(g, s, t) ==
    RoundedWalkDistances(g, [v \in IdSet(g) |-> IF v = s THEN 0 ELSE Infinity],
                         Cardinality(IdSet(g)))[t]

RECURSIVE SumSeq(_)
SumSeq(q) == IF q = <<>> THEN 0 ELSE Head(q) + SumSeq(Tail(q))

\* every two consecutive waypoints of path are joined by a connection
IsWalk(g, path) == \A i \in 1..(Len(path) - 1) : WeightsBetween(g, path[i], path[i + 1]) # {}

\* the weight of the walk along path, over the lightest connection of each leg
WalkWeight(g, path) ==
    SumSeq([i \in 1..(Len(path) - 1) |-> SetMin(WeightsBetween(g, path[i], path[i + 1]))])

\* every sum of weights of different connections of g is a number
ExactSums(g) == SumSeq([i \in DOMAIN g.edges.items |-> g.edges.items[i].dist]) < 2 ^ Precision

\* metres is d/Scale metres rounded to the nearest whole number, a half upwards
IsRounded(metres, d) == -Scale < 2 * (metres * Scale - d) /\ 2 * (metres * Scale - d) <= Scale

\* the last handler was a route query between two different waypoints of the
\* current graph
QueriedInGraph ==
    /\ lastQuery.start \in IdSet(graph)
    /\ lastQuery.end \in IdSet(graph)
    /\ lastQuery.start # lastQuery.end

-----------------------------------------------------------------------------
(* Properties of the route finder, checked under RouteSpec *)

\* C1 as stated: on a valid graph, a query between two different waypoints
\* joined by a walk returns a path from start to end along connections, and
\* the distance it returns equals the least total weight of a walk
C1_DistanceIsMinimum ==
    (ValidGraph(graph) /\ QueriedInGraph
        /\ MinWalk(graph, lastQuery.start, lastQuery.end) # Infinity)
    => /\ lastResult.result.kind = "route"
       /\ lastResult.result.path[1] = lastQuery.start
       /\ lastResult.result.path[Len(lastResult.result.path)] = lastQuery.end
       /\ IsWalk(graph, lastResult.result.path)
       /\ lastResult.result.distance * Scale = MinWalk(graph, lastQuery.start, lastQuery.end)

\* C1 amended: on a valid graph, a query between two different waypoints
\* joined by a walk returns a path from start to end along connections, and
\* the distance it returns is, rounded to the nearest whole number, the least
\* weight of a walk from start to end as floating point addition accumulates
\* it from the start; when all sums of weights are exact, this is the least
\* total weight of a walk, and the weight of the path returned
C1_ShortestRoute ==
    (ValidGraph(graph) /\ QueriedInGraph
        /\ MinWalk(graph, lastQuery.start, lastQuery.end) # Infinity)
    => /\ lastResult.result.kind = "route"
       /\ lastResult.result.path[1] = lastQuery.start
       /\ lastResult.result.path[Len(lastResult.result.path)] = lastQuery.end
       /\ IsWalk(graph, lastResult.result.path)
       /\ IsRounded(lastResult.result.distance,
                    MinRoundedWalk(graph, lastQuery.start, lastQuery.end))
       /\ ExactSums(graph)
          => /\ WalkWeight(graph, lastResult.result.path)
                   = MinWalk(graph, lastQuery.start, lastQuery.end)
             /\ IsRounded(lastResult.result.distance,
                          MinWalk(graph, lastQuery.start, lastQuery.end))

\* a route over a third waypoint was returned although a connection joins
\* start and end directly
C1_Witness ==
    /\ ValidGraph(graph)
    /\ ExactSums(graph)
    /\ QueriedInGraph
    /\ lastResult.result.kind = "route"
    /\ Len(lastResult.result.path) = 3
    /\ WeightsBetween(graph, lastQuery.start, lastQuery.end) # {}

\* C3: on a valid graph, a query between two waypoints that no walk joins ends
\* with the 'no route' outcome: dijkstra returns null, findRoute shows the 'No
\* route found' toast and no route, and the page goes on
C3_NoRouteFound ==
    (ValidGraph(graph) /\ QueriedInGraph
        /\ MinWalk(graph, lastQuery.start, lastQuery.end) = Infinity)
    => /\ lastResult.result.kind = "null"
       /\ lastResult.toast = Toast("error", "No route found between selected locations")
       /\ currentRoute = NoRoute
       /\ routeOutput = Placeholder
       /\ pc = "ready"

\* a query between two waypoints of different components, in a graph that has
\* connections, has ended
C3_Witness ==
    /\ ValidGraph(graph)
    /\ QueriedInGraph
    /\ Len(graph.edges.items) = MaxEdges
    /\ MinWalk(graph, lastQuery.start, lastQuery.end) = Infinity
    /\ lastResult.result.kind = "null"

\* C10: on a valid graph, the distance returned for a query between two
\* different waypoints joined by a walk is the distance the query in the other
\* direction returns
C10_Symmetry ==
    (ValidGraph(graph) /\ QueriedInGraph
        /\ MinWalk(graph, lastQuery.start, lastQuery.end) # Infinity)
    => \E back \in {dijkstra(graph, lastQuery.end, lastQuery.start)} :
          /\ lastResult.result.kind = "route"
          /\ back.kind = "route"
          /\ back.distance = lastResult.result.distance

-----------------------------------------------------------------------------
(* Properties of the application, checked under Spec *)

\* the step is the continuation of importGraph
ImportEnds == lastImport'.outcome # "none"

\* the step is a route query
QueryEnds == lastQuery' # NoQuery

\* C2: a query whose start and end are the same waypoint is rejected with a
\* warning before dijkstra is called: the step produces no result of dijkstra
\* and leaves the route shown, the graph and the page as they were
C2_SameLocationRejected ==
    [][(QueryEnds /\ ~notSelected(lastQuery'.start, lastQuery'.end)
            /\ lastQuery'.start = lastQuery'.end)
       => /\ lastResult'.result = [kind |-> "rejected"]
          /\ lastResult'.toast.type = "warning"
          /\ UNCHANGED <<pc, graph, currentRoute, routeOutput>>]_vars

\* a query from a waypoint to itself was rejected while the route of an earlier
\* query is shown
C2_Witness ==
    /\ lastQuery.start = lastQuery.end
    /\ lastQuery.start \in IdSet(graph)
    /\ lastResult.result.kind = "rejected"
    /\ currentRoute # NoRoute

\* C4 as stated: a query between two different selected ids one of which is
\* no waypoint of the graph ends, with neither a route nor 'no route'
C4_NotFound ==
    (/\ ~notSelected(lastQuery.start, lastQuery.end)
     /\ lastQuery.start # lastQuery.end
     /\ (lastQuery.start \notin IdSet(graph) \/ lastQuery.end \notin IdSet(graph)))
    => lastResult.result.kind \notin {"route", "null", "forever"}

\* C5 as stated: the import of a snapshot with a connection to an id that is
\* no waypoint of the snapshot reports an error and leaves the graph as it was
C5_DanglingImportRejected ==
    [][(ImportEnds /\ HasDanglingEdge(lastImport'.file.json))
       => lastImport'.toast.type = "error" /\ UNCHANGED graph]_vars

\* C6: the import of a parsed snapshot without the waypoint collection or
\* without the connection collection shows the error toast, and leaves the
\* graph, the markers, the search index, the selects, the route shown and the
\* page as they were
C6_MissingCollectionRejected ==
    [][(ImportEnds /\ lastImport'.file.parse = "ok" /\ lastImport'.file.json.kind = "object"
            /\ (Falsy(lastImport'.file.json.nodes) \/ Falsy(lastImport'.file.json.edges)))
       => /\ lastImport'.toast = Toast("error", "Error importing graph data")
          /\ UNCHANGED <<pc, graph, markers, searchIndex, selectOptions, currentRoute, routeOutput>>]_vars

\* the import of a snapshot that has waypoints and no connection collection
\* was rejected, the graph in place being another one
C6_Witness ==
    /\ lastImport.outcome = "invalid structure"
    /\ ~Falsy(lastImport.file.json.nodes)
    /\ Falsy(lastImport.file.json.edges)
    /\ pc = "ready"
    /\ graph # lastImport.file.json

\* C7 as stated: an import that reports an error has changed neither the
\* graph nor the markers nor the search index
C7_NoPartialMutation ==
    [][(ImportEnds /\ lastImport'.toast.type = "error")
       => UNCHANGED <<graph, markers, searchIndex>>]_vars

\* C8 as stated: both endpoints of every connection of the graph are ids of
\* waypoints of the graph
C8_EndpointsExist == ~HasDanglingEdge(graph)

\* C9: when obtaining the external snapshot fails, loadGraphData ends with the
\* built-in graph of 16 waypoints and 29 connections as the graph, and init
\* never takes its error path
C9_FallbackToDefault ==
    loadError
    => /\ pc \notin {"initError", "uiOnly"}
       /\ pc = "loaded"
          => /\ graph = getDefaultGraphData
             /\ Len(graph.nodes.items) = 16
             /\ Len(graph.edges.items) = 29
             /\ ValidGraph(graph)

\* after a failed fetch init has ended on its success path with the built-in
\* graph, its 16 markers and its 16 search entries
C9_Witness ==
    /\ loadError
    /\ pc = "ready"
    /\ graph = getDefaultGraphData
    /\ Cardinality(DOMAIN markers) = 16
    /\ Len(searchIndex) = 16

\* the graph has the waypoints and the connections of the built-in graph, and
\* the last handler was the route query from main_gate to library
DefaultGraphQueried ==
    /\ Interactive
    /\ IsArray(graph.nodes)
    /\ NodeIds(graph) = NodeIds(getDefaultGraphData)
    /\ graph.edges = getDefaultGraphData.edges
    /\ lastQuery = [start |-> "main_gate", end |-> "library"]

\* C11 as stated: on the built-in graph the query from main_gate to library
\* returns the distance 550, and 550 m is the least total weight of a walk
\* from main_gate to library
C11_Distance550 ==
    DefaultGraphQueried
    => /\ lastResult.result.kind = "route"
       /\ lastResult.result.distance = 550
       /\ MinWalk(graph, "main_gate", "library") = 550 * Scale

\* C11 amended: on the built-in graph the query from main_gate to library
\* returns the distance 480 (= 120 + 80 + 160 + 120) along main_gate,
\* entrance_junction, parking_area, cafeteria, library, and 480 m is the least
\* total weight of a walk from main_gate to library
C11_Distance480 ==
    DefaultGraphQueried
    => /\ lastResult.result.kind = "route"
       /\ lastResult.result.distance = 480
       /\ lastResult.result.path =
             <<"main_gate", "entrance_junction", "parking_area", "cafeteria", "library">>
       /\ [i \in DOMAIN lastResult.result.steps |-> lastResult.result.steps[i].distance]
             = <<120 * Scale, 80 * Scale, 160 * Scale, 120 * Scale>>
       /\ MinWalk(graph, "main_gate", "library") = 480 * Scale

\* the query from main_gate to library was made on the built-in graph that
\* loadGraphData fell back to, and its route is shown
C11_Witness ==
    /\ DefaultGraphQueried
    /\ loadError
    /\ graph = getDefaultGraphData
    /\ currentRoute.path # <<>>

\* the step is a position edit: the graph changes, by neither a load nor an
\* import
DragEnds == graph' # graph /\ pc' = pc /\ lastImport' = NoImport

\* the waypoints between which routes are compared: all those of the imported
\* graphs, and four of the built-in graph
ComparedIds == {"a", "b", "c", "main_gate", "parking_area", "cafeteria", "library"}

\* C12: a position edit changes the latitude and longitude of one waypoint
\* and nothing else of the graph: the waypoints, their ids and names, the
\* connections and the weights stay, and for every two waypoints (of
\* ComparedIds) the route query gives the same outcome, path, distance and
\* steps before and after
C12_PositionEditFrame ==
    [][DragEnds
       => /\ graph'.kind = graph.kind
          /\ graph'.edges = graph.edges
          /\ graph'.metadata = graph.metadata
          /\ graph'.nodes.kind = graph.nodes.kind
          /\ Len(graph'.nodes.items) = Len(graph.nodes.items)
          /\ \E k \in DOMAIN graph.nodes.items :
                /\ \A i \in DOMAIN graph.nodes.items \ {k} :
                      graph'.nodes.items[i] = graph.nodes.items[i]
                /\ graph'.nodes.items[k].id = graph.nodes.items[k].id
                /\ NameOf(graph'.nodes.items[k]) = NameOf(graph.nodes.items[k])
                /\ DOMAIN graph'.nodes.items[k] = DOMAIN graph.nodes.items[k] \cup {"lat", "lng"}
          /\ \A s, t \in IdSet(graph) \cap ComparedIds :
                dijkstra(graph', s, t) = dijkstra(graph, s, t)]_vars

\* a route was found from a waypoint whose marker had been dragged to a new
\* position
C12_Witness ==
    /\ lastResult.result.kind = "route"
    /\ \E i \in DOMAIN graph.nodes.items :
          /\ graph.nodes.items[i].id = lastQuery.start
          /\ graph.nodes.items[i].lat = 30
          /\ graph.nodes.items[i].lng = 30

-----------------------------------------------------------------------------
(* Properties of export and import, checked under ExportSpec *)

\* C13: the import of the file that exportGraph wrote of a valid graph
\* succeeds and installs a graph whose waypoint list and connection list are
\* those of the exported graph, record for record and in the same order
C13_RoundTrip ==
    [][(/\ ImportEnds
        /\ downloaded # NoDownload
        /\ lastImport'.file = FileOfText(downloaded.text)
        /\ ValidGraph(downloaded.of))
       => /\ lastImport'.outcome = "imported"
          /\ graph'.nodes = downloaded.of.nodes
          /\ graph'.edges = downloaded.of.edges]_vars

\* the export of a graph with an edited position and a weight that is no
\* whole number of metres was imported
C13_Witness ==
    /\ lastImport.outcome = "imported"
    /\ downloaded # NoDownload
    /\ lastImport.file = FileOfText(downloaded.text)
    /\ ValidGraph(downloaded.of)
    /\ graph.nodes = downloaded.of.nodes
    /\ \E i \in DOMAIN graph.nodes.items : graph.nodes.items[i].lat = 30
    /\ \E i \in DOMAIN graph.edges.items : graph.edges.items[i].dist % Scale # 0

-----------------------------------------------------------------------------
(* Properties of the route computation step by step, checked under LoopSpec *)

\* no element occurs twice in q
NoRepeat(q) == \A i, j \in DOMAIN q : q[i] = q[j] => i = j

\* the waypoints of the current graph, counted
V == Len(NodeIds(graph))

\* what C16 says of a call in progress or ended: the loop has selected no
\* waypoint twice and run at most V iterations, it ends only when no
\* unvisited waypoint has a finite distance, the start keeps the predecessor
\* 'none', the walk back has taken at most V steps and met no waypoint
\* twice, and it ends at the start
C16_Bounded ==
    (run.phase # "idle" /\ run.selected # <<>>)
    => /\ run.iterations = Len(run.selected)
       /\ run.iterations <= V
       /\ NoRepeat(run.selected)
       /\ run.phase # "loop"
          => \A i \in DOMAIN run.unvisited : run.distances[run.unvisited[i]] = Infinity
       /\ run.previous[run.startId] = Undefined
       /\ run.walked = Len(run.path)
       /\ run.walked <= V
       /\ NoRepeat(run.path)
       /\ run.phase \in {"built", "done"} /\ run.path # <<>> => run.path[1] = run.startId
       /\ run.phase = "done" /\ lastResult.result.kind = "route"
          => lastResult.result = dijkstra(graph, run.startId, run.endId)

\* C16: on a valid graph, for a start and an end that are waypoints of it, the
\* route computation stays within the bounds of C16_Bounded and terminates
C16_Terminates == []C16_Bounded /\ (Running ~> run.phase = "done")

\* a computation has ended in which the loop ran V iterations and the walk
\* back V steps
C16_Witness ==
    /\ run.phase = "done"
    /\ lastResult.result.kind = "route"
    /\ run.iterations = V
    /\ run.walked = V

-----------------------------------------------------------------------------
(* Properties of interleavings, checked under ConcurrentSpec *)

\* C14: while a route computation is between its first and its last
\* statement, no step replaces or edits the graph and no import starts or
\* continues; the computation has read one value of this.graph, and what
\* findRoute ends with is what dijkstra gives on that graph
C14_SingleGraphState ==
    [][/\ Running => UNCHANGED <<graph, pending, markers, isAdminMode>>
       /\ (run'.phase = "done" /\ run' # run /\ run'.observed # {})
          => /\ run'.observed = {graph'}
             /\ lastResult'.result = dijkstra(graph', run'.startId, run'.endId)]_vars

\* a route was computed, on a graph with an edited position, while an import
\* was waiting for the text of its file
C14_Witness ==
    /\ run.phase = "done"
    /\ lastResult.result.kind = "route"
    /\ pending # {}
    /\ \E i \in DOMAIN graph.nodes.items : graph.nodes.items[i].lat = 30

-----------------------------------------------------------------------------
(* Properties of the steps of a route, checked under RouteSpec *)

\* the display name of the waypoint id of g
DisplayName(g, id) == (CHOOSE n \in Range(g.nodes.items) : n.id = id).name

\* C15: a route result has one step for each two consecutive waypoints of its
\* path, in the order of the path; step i names the waypoint i of the path as
\* its source and the waypoint i+1 as its destination and in its description,
\* and its distance is the weight of a connection that joins the two
C15_StepsFollowPath ==
    lastResult.result.kind = "route"
    => /\ Len(lastResult.result.steps) = Len(lastResult.result.path) - 1
       /\ \A i \in DOMAIN lastResult.result.steps :
             /\ lastResult.result.steps[i].from = DisplayName(graph, lastResult.result.path[i])
             /\ lastResult.result.steps[i].to = DisplayName(graph, lastResult.result.path[i + 1])
             /\ lastResult.result.steps[i].description
                   = <<"Head towards", DisplayName(graph, lastResult.result.path[i + 1])>>
             /\ lastResult.result.steps[i].distance
                   \in WeightsBetween(graph, lastResult.result.path[i], lastResult.result.path[i + 1])

\* a route of two or more steps was returned one of whose steps runs against
\* the direction of its connection and shows a weight that is not the least
\* between its two waypoints
C15_Witness ==
    /\ lastResult.result.kind = "route"
    /\ Len(lastResult.result.steps) >= 2
    /\ \E i \in DOMAIN lastResult.result.steps :
          /\ lastResult.result.steps[i].distance
                # SetMin(WeightsBetween(graph, lastResult.result.path[i], lastResult.result.path[i + 1]))
          /\ \E j \in DOMAIN graph.edges.items :
                /\ graph.edges.items[j].b = lastResult.result.path[i]
                /\ graph.edges.items[j].a = lastResult.result.path[i + 1]
                /\ graph.edges.items[j].dist = lastResult.result.steps[i].distance

-----------------------------------------------------------------------------
(* Properties of the derived state, checked under SyncSpec *)

\* g is snapshot, but for the positions of waypoints
EditedOnly(snapshot, g) ==
    /\ g.kind = snapshot.kind
    /\ g.edges = snapshot.edges
    /\ g.metadata = snapshot.metadata
    /\ g.nodes.kind = snapshot.nodes.kind
    /\ Len(g.nodes.items) = Len(snapshot.nodes.items)
    /\ \A i \in DOMAIN g.nodes.items :
          /\ g.nodes.items[i].id = snapshot.nodes.items[i].id
          /\ g.nodes.items[i].name = snapshot.nodes.items[i].name

\* the snapshots that a load or an import of SyncSpec can install
Snapshots ==
    {getDefaultGraphData} \cup {outcome.json : outcome \in FetchOutcomes}
                          \cup {file.json : file \in SyncFiles}

\* after init has succeeded the markers are those of the waypoints of the
\* graph, the search index has the waypoints of the graph in their order, and
\* the graph is one snapshot but for edited positions
C17_Synced ==
    pc = "ready"
    => /\ DOMAIN markers = IdSet(graph)
       /\ \A id \in DOMAIN markers : graph.nodes.items[markers[id].node].id = id
       /\ Len(searchIndex) = Len(graph.nodes.items)
       /\ \A i \in DOMAIN searchIndex :
             /\ searchIndex[i].id = graph.nodes.items[i].id
             /\ searchIndex[i].name = graph.nodes.items[i].name
       /\ \E snapshot \in Snapshots : EditedOnly(snapshot, graph)
       /\ lastImport.outcome \in {"none", "imported", "invalid structure"}
       /\ lastImport.outcome = "imported" => currentRoute = NoRoute /\ routeOutput = Placeholder

\* C17: C17_Synced holds in every state, an import that succeeds installs the
\* snapshot of its file as the whole graph, and an import that is rejected
\* leaves the graph and the derived state as they were
C17_DerivedState ==
    /\ []C17_Synced
    /\ [][ImportEnds
           => IF lastImport'.outcome = "imported"
              THEN graph' = lastImport'.file.json
              ELSE UNCHANGED <<graph, markers, searchIndex, selectOptions, currentRoute>>]_vars

\* after init on the built-in graph, an import has succeeded while another
\* import was waiting for the text of its file, in admin mode
C17_Witness ==
    /\ pc = "ready"
    /\ loadError
    /\ isAdminMode
    /\ lastImport.outcome = "imported"
    /\ pending # {}

====
